---- MODULE Spec2Model ----
(***************************************************************************)
(* Model of the workload-analyzer backend: the Credential Provider         *)
(* (services/auth_service.py), the Remote API Client                       *)
(* (services/iss_client.py), the exception taxonomy (exceptions.py) and    *)
(* the GET /api/v1/jobs/{id} route (api/jobs.py).                          *)
(*                                                                         *)
(* Python None of an Optional object is the empty sequence <<>>, a present  *)
(* object x is <<x>>.  A missing dictionary key is the string Absent.       *)
(* An integer attribute that is None is 0.                                 *)
(***************************************************************************)
EXTENDS Integers, Sequences, FiniteSets, TLC

Absent == "Absent"
NoneStr == "None"

(***************************************************************************)
(* Bounds of the model.                                                    *)
(***************************************************************************)
\* longest job listing drawn for the parse loop of get_jobs
MaxJobs == 3
\* largest Count a listing response reports
MaxCount == 3

(***************************************************************************)
(* exceptions.py: the classes and the aliases of lines 112-126.            *)
(***************************************************************************)
WorkloadAnalyzerException == "WorkloadAnalyzerException"
ISSAPIException == "ISSAPIException"
AuthenticationException == "AuthenticationException"
RateLimitException == "RateLimitException"
\* classes that are not defined by the repository
PyException == "Exception"
PydanticValidationError == "pydantic.ValidationError"
AttributeError == "AttributeError"
TypeError == "TypeError"

AuthenticationError == AuthenticationException
ISSAuthenticationError == AuthenticationException
ISSClientError == ISSAPIException
ISSNotFoundError == ISSAPIException
ISSRateLimitError == RateLimitException
ValidationException == "ValidationException"

\* the base class of each class (class statements of exceptions.py)
BaseOf(cls) ==
    CASE cls = ISSAPIException -> WorkloadAnalyzerException
      [] cls = AuthenticationException -> WorkloadAnalyzerException
      [] cls = RateLimitException -> WorkloadAnalyzerException
      [] OTHER -> PyException

\* isinstance(e, handler): what an "except handler" clause catches
IsInstance(cls, handler) ==
    \/ cls = handler
    \/ BaseOf(cls) = handler
    \/ BaseOf(BaseOf(cls)) = handler

\* an exception object: its class, the status_code attribute (0 is None), the
\* message format and the values interpolated into the message
Exc(cls, msg, st, text) ==
    [cls |-> cls, status_code |-> 0, msg |-> msg, arg_status |-> st, arg_text |-> text]

NoExc == Exc("", "", 0, "")

(***************************************************************************)
(* auth_service.py: Credentials and the stored secret.                     *)
(***************************************************************************)
Credentials(u, p, cid, cs) ==
    [username |-> u, password |-> p, client_id |-> cid, client_secret |-> cs]

\* a stored secret: json = FALSE is a SecretString that is not valid JSON;
\* otherwise the value of each key, Absent when the key is missing
Secret(u, p, cid, cs) ==
    [json |-> TRUE, username |-> u, password |-> p, client_id |-> cid, client_secret |-> cs]

SecretOAuth1 == Secret(Absent, Absent, "c1", "s1")
SecretOAuth2 == Secret(Absent, Absent, "c1", "s2")
SecretBasic == Secret("u1", "p1", Absent, Absent)
SecretEmptyValues == Secret("", "", Absent, Absent)
SecretBoth == Secret("u1", "p1", "c1", "s1")
SecretHalf == Secret("u1", Absent, "c1", Absent)
SecretNullValues == Secret(NoneStr, NoneStr, Absent, Absent)
SecretInvalidJson == [json |-> FALSE, username |-> Absent, password |-> Absent,
                      client_id |-> Absent, client_secret |-> Absent]

Secrets ==
    {SecretOAuth1, SecretOAuth2, SecretBasic, SecretBoth, SecretEmptyValues,
     SecretNullValues, SecretHalf, SecretInvalidJson}

\* dict.get(key): None for a missing key
DictGet(v) == IF v = Absent THEN NoneStr ELSE v

\* truth value of an Optional[str]
Truthy(v) == v # NoneStr /\ v # ""

\* UseCache that ignores force_refresh
UseCacheIgnoreForce(cache, force_refresh) == cache # <<>>

\* line 71: if self._cached_credentials and not force_refresh
UseCache(cache, force_refresh) == cache # <<>> /\ ~force_refresh

\* AuthHandler that lets the exception through as it is
AuthHandlerReraise(cls) == cls

\* lines 117-122: the except clauses of get_iss_credentials turn the
\* exception raised in the try block, whatever its class, into
\* AuthenticationError
AuthHandler(cls) == AuthenticationError

\* SecretValid that accepts every secret
SecretValidAlways(sec) == TRUE

\* lines 91-97: the secret has the keys of one pair at least
SecretValid(sec) ==
    LET has_user_pass == sec.username # Absent /\ sec.password # Absent
        has_oauth_creds == sec.client_id # Absent /\ sec.client_secret # Absent
    IN  has_user_pass \/ has_oauth_creds

\* lines 75-122, the try block of get_iss_credentials and its except clauses:
\* the store is read, the secret decoded and validated, and the cache is
\* assigned on success only (line 105).  store_ok = FALSE is a secret store
\* that raises.
FetchCredentials(cache, store_ok, sec) ==
    LET none == Credentials(NoneStr, NoneStr, NoneStr, NoneStr)
        credentials == Credentials(DictGet(sec.username), DictGet(sec.password),
                                   DictGet(sec.client_id), DictGet(sec.client_secret))
    IN  IF ~store_ok
        THEN [ok |-> FALSE, value |-> none, cache |-> cache, read |-> TRUE,
              exc |-> Exc(AuthHandler("ClientError"), "Credential retrieval failed: {e}", 0,
                          "Secrets Manager error")]
        ELSE IF ~sec.json
        THEN [ok |-> FALSE, value |-> none, cache |-> cache, read |-> TRUE,
              exc |-> Exc(AuthHandler("JSONDecodeError"), "Invalid credential format: {e}",
                          0, "")]
        ELSE IF ~SecretValid(sec)
        THEN [ok |-> FALSE, value |-> none, cache |-> cache, read |-> TRUE,
              exc |-> Exc(AuthHandler(AuthenticationError),
                          "Credential retrieval failed: {e}", 0,
                          "Secret must contain either (username, password) or (client_id, client_secret)")]
        ELSE [ok |-> TRUE, value |-> credentials, cache |-> <<credentials>>,
              read |-> TRUE, exc |-> NoExc]

\* GetIssCredentials that drops the cache before it reads the store
GetIssCredentialsDropCache(cache, force_refresh, store_ok, sec) ==
    IF UseCache(cache, force_refresh)
    THEN [ok |-> TRUE, value |-> cache[1], cache |-> cache, read |-> FALSE,
          exc |-> NoExc]
    ELSE FetchCredentials(<<>>, store_ok, sec)

\* AuthService.get_iss_credentials: the whole call (boto3 is synchronous, the
\* coroutine never suspends).  Returns the value or the exception, the cache
\* afterwards, and whether the secret store was contacted.
GetIssCredentials(cache, force_refresh, store_ok, sec) ==
    IF UseCache(cache, force_refresh)
    THEN [ok |-> TRUE, value |-> cache[1], cache |-> cache, read |-> FALSE,
          exc |-> NoExc]
    ELSE FetchCredentials(cache, store_ok, sec)

(***************************************************************************)
(* models/job_models.py: the enumerations and the JobRequest validation.   *)
(***************************************************************************)
JobTypeValues ==
    {"IWPS", "ISIM", "Coho", "NovaCoho", "Instance", "WorkloadJob", "WorkloadJobROI",
     "Custom"}

JobStatusValues ==
    {"requested", "queued", "allocating", "allocated", "booting", "inprogress",
     "checkpointing", "done", "error", "releasing", "released", "complete"}

\* JobStatus member -> member.value
JobStatusValue(member) ==
    CASE member = "REQUESTED" -> "requested"
      [] member = "QUEUED" -> "queued"
      [] member = "ALLOCATING" -> "allocating"
      [] member = "ALLOCATED" -> "allocated"
      [] member = "BOOTING" -> "booting"
      [] member = "INPROGRESS" -> "inprogress"
      [] member = "CHECKPOINTING" -> "checkpointing"
      [] member = "DONE" -> "done"
      [] member = "ERROR" -> "error"
      [] member = "RELEASING" -> "releasing"
      [] member = "RELEASED" -> "released"
      [] member = "COMPLETE" -> "complete"

\* a raw element of the "Jobs" array: shape is the JSON type of the element;
\* for an object, the value of each key (Absent when missing); Metadata is
\* Absent, "dict" (an object), "null" or "str" (not an object)
RawJob(shape, id, name, type, status, meta) ==
    [shape |-> shape, JobRequestID |-> id, Name |-> name, Type |-> type,
     JobRequestStatus |-> status, Metadata |-> meta]

\* len(Name) of the names the model draws
NameLen(n) == CASE n = "" -> 0 [] n = "LONG" -> 256 [] OTHER -> 4

\* JobRequest(**job_data) passes validation (fields name, job_type, status)
JobRequestValid(rec) ==
    /\ rec.Name # Absent
    /\ NameLen(rec.Name) >= 1
    /\ NameLen(rec.Name) <= 255
    /\ rec.Type \in JobTypeValues
    /\ rec.JobRequestStatus \in JobStatusValues \cup {Absent}

\* the JobRequest built from a record that passes validation; RequestedBy is the
\* extra field flattened out of Metadata
JobRequest(rec) ==
    [job_id |-> DictGet(rec.JobRequestID), name |-> rec.Name, job_type |-> rec.Type,
     status |-> DictGet(rec.JobRequestStatus),
     RequestedBy |-> IF rec.Metadata = "dict" THEN "alice" ELSE Absent]

NoJob == [job_id |-> NoneStr, name |-> "", job_type |-> "", status |-> NoneStr,
          RequestedBy |-> Absent]

\* one iteration of the loop of get_jobs (lines 343-359): "job" appends,
\* "skip" is the ValidationError handler, "abort" is an exception the inner
\* handler does not catch
ParseRecord(rec) ==
    IF rec.shape = "null"
    THEN [res |-> "abort", job |-> NoJob,
          exc |-> Exc(TypeError, "argument of type 'NoneType' is not iterable", 0, "")]
    ELSE IF rec.shape # "dict"
    THEN [res |-> "abort", job |-> NoJob,
          exc |-> Exc(TypeError, "argument after ** must be a mapping", 0, "")]
    ELSE IF rec.Metadata \notin {Absent, "dict"}
    THEN [res |-> "abort", job |-> NoJob,
          exc |-> Exc(AttributeError, "object has no attribute 'get'", 0, "")]
    ELSE IF ~JobRequestValid(rec)
    THEN [res |-> "skip", job |-> NoJob, exc |-> NoExc]
    ELSE [res |-> "job", job |-> JobRequest(rec), exc |-> NoExc]

RECURSIVE ParseJobs(_, _)
\* the for loop of get_jobs over data["Jobs"], acc is the list jobs
ParseJobs(recs, acc) ==
    IF recs = <<>>
    THEN [ok |-> TRUE, jobs |-> acc, exc |-> NoExc]
    ELSE LET r == ParseRecord(Head(recs))
         IN  IF r.res = "abort"
             THEN [ok |-> FALSE, jobs |-> <<>>, exc |-> r.exc]
             ELSE ParseJobs(Tail(recs),
                            IF r.res = "job" THEN Append(acc, r.job) ELSE acc)

\* a response body: kind "notjson" cannot be decoded, "nondict" is JSON that is
\* not an object, "valid"/"invalid" is an object that passes/fails the model
\* validation of a single-item operation, "listing" is a jobs listing with
\* "Jobs" (JobsKind: absent, null, list), "Count" (CountKind: absent, null,
\* int) and "ContinuationToken"
Body(kind, jobsKind, jobs, countKind, count, token) ==
    [kind |-> kind, JobsKind |-> jobsKind, Jobs |-> jobs, CountKind |-> countKind,
     Count |-> count, ContinuationToken |-> token]

PlainBody(kind) == Body(kind, "absent", <<>>, "absent", 0, Absent)

NoData == PlainBody("none")

\* a result of a public operation: returned value or raised exception
Result(ok, exc, jobs, count, token) ==
    [ok |-> ok, exc |-> exc, jobs |-> jobs, count |-> count, continuation_token |-> token]

Raised(e) == Result(FALSE, e, <<>>, 0, NoneStr)

NoResult == Result(FALSE, NoExc, <<>>, 0, NoneStr)

\* the count of the returned ISSJobsResponse: data.get("Count", len(jobs))
ResponseCount(data, jobs) ==
    IF data.CountKind = "int" THEN data.Count ELSE Len(jobs)

\* get_jobs, lines 341-368: the body of the try block after _request returned
\* data, before the catch-all handler
GetJobsParse(data) ==
    IF data.kind # "listing"
    THEN Raised(Exc(AttributeError, "object has no attribute 'get'", 0, ""))
    ELSE IF data.JobsKind = "null"
    THEN Raised(Exc(TypeError, "'NoneType' object is not iterable", 0, ""))
    ELSE LET p == ParseJobs(IF data.JobsKind = "absent" THEN <<>> ELSE data.Jobs, <<>>)
         IN  IF ~p.ok
             THEN Raised(p.exc)
             ELSE IF data.CountKind = "null"
             THEN Raised(Exc(PydanticValidationError, "count: none is not an allowed value",
                             0, ""))
             ELSE Result(TRUE, NoExc, p.jobs, ResponseCount(data, p.jobs),
                         DictGet(data.ContinuationToken))

(***************************************************************************)
(* iss_client.py: the query parameters of get_jobs (lines 315-334).        *)
(***************************************************************************)
Min(a, b) == IF a < b THEN a ELSE b
Max(a, b) == IF a > b THEN a ELSE b

\* ClampLimit without the lower bound
ClampLimitNoFloor(limit) == Min(limit, 100)

\* line 316: min(max(limit, 1), 100)
ClampLimit(limit) == Min(Max(limit, 1), 100)

\* the entry a filter adds to params: nothing when the argument is falsy
ParamEntry(key, arg, value) == IF Truthy(arg) THEN {<<key, value>>} ELSE {}

\* GetJobsParams with a slip: the requester is sent under the internal name
GetJobsParamsInternalName(limit, f) ==
    [Limit |-> ClampLimit(limit),
     query |->
        ParamEntry("JobRequestStatus", f.status,
                   IF f.status = NoneStr THEN NoneStr ELSE JobStatusValue(f.status))
        \cup ParamEntry("JobRequestID", f.job_request_id, f.job_request_id)
        \cup ParamEntry("Type", f.job_type, f.job_type)
        \cup ParamEntry("Queue", f.queue, f.queue)
        \cup ParamEntry("requested_by", f.requested_by, f.requested_by)
        \cup ParamEntry("ParentInstanceID", f.parent_instance_id, f.parent_instance_id)
        \cup ParamEntry("WorkloadJobROIID", f.workload_job_roi_id, f.workload_job_roi_id)
        \cup ParamEntry("ContinuationToken", f.continuation_token, f.continuation_token)]

\* params as get_jobs builds it: Limit and the set of (key, value) entries
GetJobsParams(limit, f) ==
    [Limit |-> ClampLimit(limit),
     query |->
        ParamEntry("JobRequestStatus", f.status,
                   IF f.status = NoneStr THEN NoneStr ELSE JobStatusValue(f.status))
        \cup ParamEntry("JobRequestID", f.job_request_id, f.job_request_id)
        \cup ParamEntry("Type", f.job_type, f.job_type)
        \cup ParamEntry("Queue", f.queue, f.queue)
        \cup ParamEntry("RequestedBy", f.requested_by, f.requested_by)
        \cup ParamEntry("ParentInstanceID", f.parent_instance_id, f.parent_instance_id)
        \cup ParamEntry("WorkloadJobROIID", f.workload_job_roi_id, f.workload_job_roi_id)
        \cup ParamEntry("ContinuationToken", f.continuation_token, f.continuation_token)]

(***************************************************************************)
(* State.                                                                  *)
(***************************************************************************)
VARIABLES
    secret,              \* the secret held by the secret store
    cached,              \* AuthService._cached_credentials
    auth_service,        \* ISSClient.auth_service: "AuthService" or "str"
    client_credentials,  \* ISSClient._credentials
    session,             \* ISSClient._session: "none", "open", "closed"
    pc,                  \* position of the logical operation in flight
    caller,              \* "direct" or "rest" (the GET /jobs/{id} route)
    op,                  \* the public operation in flight
    retry_auth,          \* the retry_auth argument of the running _request
    credentials,         \* the local variable credentials of _request
    trace,               \* outbound calls and responses of the operation
    exc,                 \* the exception _request raised
    data,                \* the data _request returned
    result,              \* what the public operation returned or raised
    http,                \* status the route answered (0: none yet)
    fpc,                 \* position of a pure-function run: "input", "done"
    in_limit,            \* get_jobs argument limit
    in_filters,          \* get_jobs filter arguments, by parameter name
    out_params,          \* the params dictionary get_jobs hands to _request
    in_data,             \* the decoded body _request returns to get_jobs
    out_result,          \* what get_jobs returns or raises for in_data
    auth_call,           \* the last call made on the AuthService (<<>>: none yet)
    fetched,             \* what the last successful read of the secret store gave
    fs_pc,               \* position of the FileService operation in flight
    fs_op,               \* "list_files" or "download_file"
    fs_client,           \* FileService.iss_client is set
    fs_file_path,        \* the path argument of the operation
    fs_artifact,         \* the local artifact_type
    fs_trace,            \* requests sent to the file service and their answers
    fs_result,           \* what the operation returned or raised
    sm_pc,               \* position of a summarize_jobs_response run
    sm_jobs,             \* jobs_response['jobs']
    sm_max_jobs,         \* max_jobs (<<>>: None)
    sm_max_chars,        \* max_chars_per_response
    sm_out,              \* what summarize_jobs_response returned
    authorization,       \* the Authorization header of the last REST request
    n_calls,             \* get_iss_credentials calls of the concurrent callers
    n_reads,             \* reads of the secret store those calls made
    startup,             \* lifespan: "none", "testing", "completed", "failed"
    ensured,             \* the session _request found on entry ("": none yet)
    rotated              \* the secret was replaced during the operation in flight

clientVars ==
    <<secret, cached, auth_service, client_credentials, session, pc, caller, op,
      retry_auth, credentials, trace, exc, data, result, http>>

\* inputs and outputs of the runs of get_jobs on drawn arguments and bodies
pureVars == <<fpc, in_limit, in_filters, out_params, in_data, out_result>>

\* state of the runs of the other components on drawn inputs
fsVars == <<fs_pc, fs_op, fs_client, fs_file_path, fs_artifact, fs_trace, fs_result>>

smVars == <<sm_pc, sm_jobs, sm_max_jobs, sm_max_chars, sm_out>>

\* nothing has run on the summarizer
SmIdle ==
    /\ sm_pc = "off"
    /\ sm_jobs = <<>>
    /\ sm_max_jobs = <<>>
    /\ sm_max_chars = 0
    /\ sm_out = [jobs |-> <<>>, count |-> 0, total_available |-> 0, truncated |-> FALSE]

\* nothing has run on the AuthService and the FileService, no REST request
\* was received
AuthFileIdle ==
    /\ authorization = <<>>
    /\ n_calls = 0
    /\ n_reads = 0
    /\ startup = "none"
    /\ ensured = ""
    /\ rotated = FALSE
    /\ auth_call = <<>>
    /\ fetched = <<>>
    /\ fs_pc = "idle"
    /\ fs_op = "list_files"
    /\ fs_client = FALSE
    /\ fs_file_path = <<>>
    /\ fs_artifact = ""
    /\ fs_trace = <<>>
    /\ fs_result = [ok |-> FALSE, cls |-> "", inner |-> "", files |-> <<>>, content |-> ""]

\* what the client state machine never touches
otherVars == <<auth_call, fetched, fsVars, smVars, n_calls, n_reads>>

extraVars == <<otherVars, authorization, startup, ensured, rotated>>

\* nothing has run on the other components
ExtraIdle ==
    /\ AuthFileIdle
    /\ SmIdle

vars == <<clientVars, pureVars, extraVars>>

Ops == {"get_jobs", "get_job", "get_platforms", "get_platform", "get_instances",
        "get_instance"}

\* an entry of trace: ev is "read" (secret store contacted), "token" (token
\* exchange sent), "token_resp", "api" (API request sent), "resp" (API
\* response or transport failure); cr the credentials involved, tok the
\* bearer token, st a status (0: none), what a failure kind
Event(ev, cr, tok, st, what) == [ev |-> ev, cr |-> cr, tok |-> tok, st |-> st, what |-> what]

ApiErrorStatuses == {401, 403, 404, 429, 500}
NetFailures == {"ClientError", "TimeoutError"}
TokenFailures == {"non200", "badjson", "notoken", "TimeoutError", "ClientError"}
Tokens == {"tok1", "tok2"}

\* the listings a 200 answer to get_jobs carries in the client state machine
GoodA == RawJob("dict", "id-a", "jobA", "IWPS", "done", "dict")
GoodB == RawJob("dict", "id-b", "jobB", "ISIM", Absent, Absent)
NoType == RawJob("dict", "id-c", "jobC", Absent, "done", Absent)
MetaNull == RawJob("dict", "id-d", "jobD", "IWPS", "done", "null")

SampleListings ==
    {Body("listing", "list", <<GoodA, GoodB>>, "int", 2, "next"),
     Body("listing", "list", <<GoodA, NoType>>, "int", 2, Absent),
     Body("listing", "list", <<GoodA, MetaNull>>, "absent", 0, Absent),
     Body("listing", "list", <<GoodA>>, "null", 0, Absent),
     Body("listing", "null", <<>>, "int", 0, Absent),
     PlainBody("nondict"), PlainBody("notjson")}

\* the job records a 200 answer to get_job carries: complete, without status,
\* with a status or a type outside the enumeration
JobBodies ==
    {Body("job", "list", <<r>>, "absent", 0, Absent) :
        r \in {GoodA, GoodB, RawJob("dict", "id-f", "jobF", "IWPS", "bogus", Absent),
               RawJob("dict", "id-e", "jobE", "Bogus", "done", "dict")}}

PlainBodies == {PlainBody("valid"), PlainBody("invalid"), PlainBody("nondict"),
                PlainBody("notjson")}

BodiesFor(o) ==
    IF o = "get_jobs" THEN SampleListings
    ELSE IF o = "get_job" THEN PlainBodies \cup JobBodies
    ELSE PlainBodies

\* the arguments drawn for get_jobs: every filter omitted (None), empty or set
FilterInputs ==
    [status : {NoneStr, "COMPLETE", "DONE"},
     job_request_id : {NoneStr, "", "id-1"},
     job_type : {NoneStr, "", "IWPS,ISIM"},
     queue : {NoneStr, "", "q1"},
     requested_by : {NoneStr, "", "alice"},
     parent_instance_id : {NoneStr, "", "inst-1"},
     workload_job_roi_id : {NoneStr, "", "roi-1"},
     continuation_token : {NoneStr, "", "2025-11-06T07:24:51.298Z..."}]

NoFilters ==
    [status |-> NoneStr, job_request_id |-> NoneStr, job_type |-> NoneStr,
     queue |-> NoneStr, requested_by |-> NoneStr, parent_instance_id |-> NoneStr,
     workload_job_roi_id |-> NoneStr, continuation_token |-> NoneStr]

LimitInputs == {-5, 0, 1, 50, 100, 101, 1000}

NoParams == [Limit |-> 0, query |-> {}]

\* the records drawn for the elements of a listing
BadType == RawJob("dict", "id-e", "jobE", "Bogus", "done", "dict")
BadStatus == RawJob("dict", "id-f", "jobF", "IWPS", "bogus", Absent)
LongName == RawJob("dict", "id-g", "LONG", "Custom", Absent, Absent)
NotDict == RawJob("str", Absent, Absent, Absent, Absent, Absent)

RawJobs == {GoodA, GoodB, NoType, BadType, BadStatus, LongName, MetaNull, NotDict}

SeqsUpTo(S, n) == UNION {[1..k -> S] : k \in 0..n}

\* the bodies drawn for the parse of get_jobs
ListingBodies ==
    {Body("listing", "list", js, ck[1], ck[2], tk) :
        js \in SeqsUpTo(RawJobs, MaxJobs),
        ck \in {<<"absent", 0>>, <<"null", 0>>} \cup {<<"int", n>> : n \in 0..MaxCount},
        tk \in {Absent, "next"}}
    \cup {Body("listing", "absent", <<>>, "absent", 0, Absent),
          Body("listing", "null", <<>>, "int", 0, Absent),
          PlainBody("nondict")}

\* the client before its first operation
ClientIdle ==
    /\ cached = <<>>
    /\ auth_service = "AuthService"
    /\ client_credentials = <<>>
    /\ session = "none"
    /\ pc = "idle"
    /\ caller = "direct"
    /\ op = "get_jobs"
    /\ retry_auth = TRUE
    /\ credentials = <<>>
    /\ trace = <<>>
    /\ exc = NoExc
    /\ data = NoData
    /\ result = NoResult
    /\ http = 0

Init ==
    /\ secret \in Secrets
    /\ ClientIdle
    /\ fpc = "off"
    /\ in_limit = 100
    /\ in_filters = NoFilters
    /\ out_params = NoParams
    /\ in_data = NoData
    /\ out_result = NoResult
    /\ ExtraIdle

(***************************************************************************)
(* iss_client.py: the pieces of _request.                                  *)
(***************************************************************************)
\* ISSClient._get_credentials (lines 79-83): the client's own cache first, then
\* the provider without force_refresh
GetCredentials(client_creds, cache, store_ok, sec) ==
    IF client_creds # <<>>
    THEN [ok |-> TRUE, value |-> client_creds[1], cache |-> cache, read |-> FALSE,
          exc |-> NoExc]
    ELSE GetIssCredentials(cache, FALSE, store_ok, sec)

\* lines 206-214: which authentication the request uses
AuthPath(c) ==
    IF Truthy(c.client_id) /\ Truthy(c.client_secret) THEN "oauth"
    ELSE IF Truthy(c.username) /\ Truthy(c.password) THEN "basic"
    ELSE "none"

\* GetOAuthToken handing out the first token whatever the endpoint answered
GetOAuthTokenStale(out) ==
    IF out \in Tokens
    THEN [ok |-> TRUE, token |-> "tok1", exc |-> NoExc]
    ELSE [ok |-> FALSE, token |-> "", exc |-> Exc(ISSClientError, "", 0, out)]

\* GetOAuthToken going on with an empty token when the answer has no
\* access_token
GetOAuthTokenLenient(out) ==
    IF out \in Tokens \cup {"notoken"}
    THEN [ok |-> TRUE, token |-> IF out = "notoken" THEN "" ELSE out, exc |-> NoExc]
    ELSE [ok |-> FALSE, token |-> "", exc |-> Exc(ISSClientError, "", 0, out)]

\* ISSClient._get_oauth_token (lines 85-161) on the answer of the token endpoint
GetOAuthToken(out) ==
    IF out \in Tokens
    THEN [ok |-> TRUE, token |-> out, exc |-> NoExc]
    ELSE [ok |-> FALSE, token |-> "",
          exc |-> Exc(ISSClientError,
                      CASE out = "TimeoutError" -> "OAuth2 request timed out to {token_url}"
                        [] out = "ClientError" -> "OAuth2 client error: {e}"
                        [] OTHER -> "OAuth2 authentication failed: {e}",
                      0, out)]

\* lines 254-266: the branches of _request for a status other than 401
HandleOtherStatus(status, endpoint, error_text) ==
    IF status = 404
    THEN [act |-> "raise",
          exc |-> Exc(ISSNotFoundError, "Resource not found: {endpoint}", 0, endpoint)]
    ELSE IF status = 429
    THEN [act |-> "raise",
          exc |-> Exc(ISSRateLimitError,
                      "Rate limit exceeded. Retry after {retry_after} seconds", 0,
                      "Rate limit exceeded")]
    ELSE IF status >= 400
    THEN [act |-> "raise",
          exc |-> Exc(ISSClientError, "Request failed with status {status}: {error_text}",
                      status, error_text)]
    ELSE [act |-> "parse", exc |-> NoExc]

\* HandleStatus with a slip: a 401 is retried whatever retry_auth says
HandleStatusRetryAgain(status, retry, endpoint, error_text) ==
    IF status = 401
    THEN [act |-> "retry", exc |-> NoExc]
    ELSE HandleOtherStatus(status, endpoint, error_text)

\* HandleStatus with a slip: a 429 is retried like a 401
HandleStatusRetry429(status, retry, endpoint, error_text) ==
    IF status \in {401, 429}
    THEN IF retry
         THEN [act |-> "retry", exc |-> NoExc]
         ELSE [act |-> "raise",
               exc |-> Exc(ISSAuthenticationError, "Authentication failed after retry", 0, "")]
    ELSE HandleOtherStatus(status, endpoint, error_text)

\* lines 242-264: what _request does with the status of a response
HandleStatus(status, retry, endpoint, error_text) ==
    IF status = 401
    THEN IF retry
         THEN [act |-> "retry", exc |-> NoExc]
         ELSE [act |-> "raise",
               exc |-> Exc(ISSAuthenticationError, "Authentication failed after retry", 0, "")]
    ELSE HandleOtherStatus(status, endpoint, error_text)

\* lines 278-283: a transport failure of the API request
HandleFailure(f) ==
    IF f = "TimeoutError"
    THEN Exc(ISSClientError, "Request timeout", 0, "")
    ELSE Exc(ISSClientError, "Network error: {e}", 0, f)

Endpoint(o) ==
    CASE o = "get_jobs" -> "jobs"
      [] o = "get_job" -> "jobs/job/{job_id}"
      [] o = "get_platforms" -> "platforms"
      [] o = "get_platform" -> "platforms/platform/{platform_id}"
      [] o = "get_instances" -> "instances"
      [] o = "get_instance" -> "instances/{instance_id}"

(***************************************************************************)
(* iss_client.py: the public operations around _request.                   *)
(***************************************************************************)
Returned == Result(TRUE, NoExc, <<>>, 0, NoneStr)

\* JobDetail(**data) passes validation: the fields of JobRequest, and status
\* required (job_models.py line 198)
JobDetailValid(rec) ==
    JobRequestValid(rec) /\ rec.JobRequestStatus \in JobStatusValues

\* the statements of the try block that follow _request
ParseData(o, d) ==
    CASE o = "get_jobs" -> GetJobsParse(d)
      [] o = "get_job" /\ d.kind = "job" ->
            IF JobDetailValid(d.Jobs[1])
            THEN Result(TRUE, NoExc, <<JobRequest(d.Jobs[1])>>, 0, NoneStr)
            ELSE Raised(Exc(PydanticValidationError, "validation error", 0, ""))
      [] o \in {"get_job", "get_instance"} ->
            IF d.kind = "valid" THEN Returned
            ELSE IF d.kind = "invalid"
            THEN Raised(Exc(PydanticValidationError, "validation error", 0, ""))
            ELSE Raised(Exc(TypeError, "argument after ** must be a mapping", 0, ""))
      [] o = "get_platform" ->
            IF d.kind = "valid" THEN Returned
            ELSE IF d.kind = "invalid"
            THEN Raised(Exc(PydanticValidationError, "validation error", 0, ""))
            ELSE Raised(Exc(AttributeError, "object has no attribute 'get'", 0, ""))
      [] o \in {"get_platforms", "get_instances"} ->
            IF d.kind \in {"valid", "invalid"} THEN Returned
            ELSE Raised(Exc(AttributeError, "object has no attribute 'get'", 0, ""))

\* OpHandler with a slip: get_jobs, like get_job, converts a ValidationError
\* only
OpHandlerValidationOnly(o, e) ==
    IF e.cls = PydanticValidationError
    THEN Exc(ISSClientError, "Invalid data format: {e}", 0, e.msg)
    ELSE e

\* the except clauses of each public operation applied to exception e
OpHandler(o, e) ==
    CASE o = "get_jobs" -> Exc(ISSClientError, "Failed to get jobs: {e}", e.arg_status, e.msg)
      [] o = "get_platforms" ->
            Exc(ISSClientError, "Failed to get platforms: {e}", e.arg_status, e.msg)
      [] o = "get_instances" ->
            Exc(ISSClientError, "Failed to get instances: {e}", e.arg_status, e.msg)
      [] o = "get_platform" ->
            IF e.cls = PydanticValidationError
            THEN Exc(ISSClientError, "Invalid platform data format: {e}", 0, e.msg)
            ELSE Exc(ISSClientError, "Failed to get platform {platform_id}: {e}",
                     e.arg_status, e.msg)
      [] o = "get_job" ->
            IF e.cls = PydanticValidationError
            THEN Exc(ISSClientError, "Invalid job data format: {e}", 0, e.msg)
            ELSE e
      [] o = "get_instance" ->
            IF e.cls = PydanticValidationError
            THEN Exc(ISSClientError, "Invalid instance data format: {e}", 0, e.msg)
            ELSE e

\* a public operation after _request returned d (returned = TRUE) or raised e
PublicOp(o, returned, e, d) ==
    LET inner == IF returned THEN ParseData(o, d) ELSE Raised(e)
    IN  IF inner.ok THEN inner ELSE Raised(OpHandler(o, inner.exc))

(***************************************************************************)
(* api/jobs.py: the route GET /api/v1/jobs/{job_id}.                       *)
(***************************************************************************)
\* the except clauses of the route get_job in source order (lines 183-204)
RestGetJobHandlers ==
    <<[cls |-> ISSNotFoundError, status |-> 404],
      [cls |-> ISSAuthenticationError, status |-> 401],
      [cls |-> ISSClientError, status |-> 502],
      [cls |-> PyException, status |-> 500]>>

RECURSIVE FirstHandler(_, _, _)
\* the first except clause that matches the class, as Python selects it
FirstHandler(handlers, cls, i) ==
    IF i > Len(handlers) THEN 500
    ELSE IF IsInstance(cls, handlers[i].cls) THEN handlers[i].status
    ELSE FirstHandler(handlers, cls, i + 1)

\* the status the route answers for the outcome of ISSClient.get_job
RestGetJobStatus(res) ==
    IF res.ok THEN 200 ELSE FirstHandler(RestGetJobHandlers, res.exc.cls, 1)

(***************************************************************************)
(* Actions of the client state machine.  A logical operation suspends at   *)
(* its outbound HTTP calls only: pc "token" (token exchange in flight) and *)
(* pc "wait" (API request in flight).                                      *)
(***************************************************************************)
\* EnsureSession that creates a session only when there has been none
EnsureSessionOnce(s) == IF s = "none" THEN "open" ELSE s

\* ISSClient._ensure_session (lines 50-71): a new session unless one is open
EnsureSession(s) == IF s = "none" \/ s = "closed" THEN "open" ELSE s

\* ISSClient.close (lines 73-77): closes an open session, otherwise nothing
CloseSession(s) == IF s = "open" THEN "closed" ELSE s

\* lifespan (main.py lines 76-95): the connectivity test's exception is logged
\* and raised again, and the outer handler raises it again
LifespanOutcome(res) == IF res.ok THEN "completed" ELSE "failed"

\* ISSClient.__init__ (lines 29-39) with auth_service an AuthService
\* ("AuthService"), None ("None": a new AuthService) or a string ("str")
ClientInit(arg) ==
    /\ auth_service' = IF arg = "str" THEN "str" ELSE "AuthService"
    /\ cached' = IF arg = "None" THEN <<>> ELSE cached
    /\ client_credentials' = <<>>

\* entry of a public operation: the frame of the first _request
Begin(c, o) ==
    /\ pc' = "request"
    /\ caller' = c
    /\ op' = o
    /\ retry_auth' = TRUE
    /\ credentials' = <<>>
    /\ trace' = <<>>
    /\ exc' = NoExc
    /\ data' = NoData
    /\ result' = NoResult
    /\ http' = 0

\* ISSClient(settings, auth_service) as main.py and api/instances.py build it
Construct ==
    /\ pc = "idle"
    /\ auth_service = "str" \/ client_credentials # <<>> \/ session # "none"
    /\ ClientInit("AuthService")
    /\ session' = "none"
    /\ UNCHANGED <<secret, pc, caller, op, retry_auth, credentials, trace, exc, data,
                   result, http>>
    /\ UNCHANGED <<pureVars, extraVars>>

\* a caller invokes public operation o on the client
Call(o) ==
    /\ pc = "idle"
    /\ Begin("direct", o)
    /\ UNCHANGED <<secret, cached, auth_service, client_credentials, session>>
    /\ UNCHANGED <<pureVars, extraVars>>

\* the Authorization headers requests come with: <<>> is a request without
\* the header, otherwise the first seven characters and the rest
Headers ==
    {<<>>, <<"Bearer ", "tok">>, <<"Bearer ", "">>, <<"Basic ", "dXNlcg==">>,
     <<"bearer ", "tok">>, <<"", "">>}

\* the dependency get_bearer_token (jobs.py lines 31-48, platforms.py lines
\* 26-43): the parameter is declared Header(...), so the framework answers a
\* request without the header 422 before the function runs; status 0 is a
\* token handed to the route
GetBearerToken(header) ==
    IF header = <<>> THEN [status |-> 422, token |-> ""]
    ELSE IF header[1] # "Bearer " THEN [status |-> 401, token |-> ""]
    ELSE [status |-> 0, token |-> header[2]]

\* the route GET /api/v1/jobs/{job_id}: get_bearer_token answers the request
\* itself or gives the token; get_iss_client (jobs.py lines 51-56) builds
\* ISSClient(settings, bearer_token), the route enters the client (__aenter__
\* opens the session) and calls get_job
RestGetJob(header) ==
    /\ pc = "idle"
    /\ authorization' = header
    /\ LET b == GetBearerToken(header)
       IN  IF b.status # 0
           THEN /\ pc' = "done"
                /\ caller' = "rest"
                /\ op' = "get_job"
                /\ http' = b.status
                /\ UNCHANGED <<cached, auth_service, client_credentials, session,
                               retry_auth, credentials, trace, exc, data, result>>
           ELSE /\ ClientInit(IF b.token = "" THEN "None" ELSE "str")
                /\ session' = EnsureSession("none")
                /\ Begin("rest", "get_job")
    /\ UNCHANGED secret
    /\ UNCHANGED <<pureVars, otherVars, startup, ensured, rotated>>

\* _request from its entry to its first outbound call (lines 199-239)
RequestBegin(store_ok) ==
    /\ pc = "request"
    /\ session' = EnsureSession(session)
    /\ ensured' = session
    /\ IF auth_service = "str"
       THEN /\ pc' = "raised"
            /\ exc' = Exc(AttributeError,
                          "'str' object has no attribute 'get_iss_credentials'", 0, "")
            /\ UNCHANGED <<cached, client_credentials, credentials, trace>>
       ELSE LET r == GetCredentials(client_credentials, cached, store_ok, secret)
                t1 == IF r.read
                      THEN Append(trace, Event("read", IF r.ok THEN <<r.value>> ELSE <<>>,
                                               "", 0, ""))
                      ELSE trace
            IN  /\ cached' = r.cache
                /\ IF ~r.ok
                   THEN /\ pc' = "raised"
                        /\ exc' = r.exc
                        /\ trace' = t1
                        /\ UNCHANGED <<client_credentials, credentials>>
                   ELSE /\ client_credentials' = <<r.value>>
                        /\ credentials' = <<r.value>>
                        /\ CASE AuthPath(r.value) = "oauth" ->
                                  /\ pc' = "token"
                                  /\ trace' = Append(t1, Event("token", <<r.value>>, "", 0, ""))
                                  /\ exc' = exc
                             [] AuthPath(r.value) = "basic" ->
                                  /\ pc' = "wait"
                                  /\ trace' = Append(t1, Event("api", <<r.value>>, "", 0,
                                                               "Basic"))
                                  /\ exc' = exc
                             [] OTHER ->
                                  /\ pc' = "raised"
                                  /\ trace' = t1
                                  /\ exc' = Exc(ISSClientError,
                                                "No valid authentication credentials available",
                                                0, "")
    /\ UNCHANGED <<secret, auth_service, caller, op, retry_auth, data, result, http>>
    /\ UNCHANGED <<pureVars, otherVars, authorization, startup, rotated>>

\* the token endpoint answers: _get_oauth_token finishes and _request sends
\* the API request with the bearer token (lines 208-239)
TokenResponse(out) ==
    /\ pc = "token"
    /\ LET r == GetOAuthToken(out)
           c == credentials[1]
           t1 == Append(trace, Event("token_resp", <<>>, r.token, 0, out))
       IN  IF ~r.ok
           THEN /\ pc' = "raised"
                /\ exc' = r.exc
                /\ trace' = t1
           ELSE IF Truthy(c.username) /\ Truthy(c.password)
           THEN \* line 237 reads the local auth, bound on the Basic path only
                /\ pc' = "raised"
                /\ exc' = Exc("UnboundLocalError", "local variable 'auth' referenced before assignment", 0, "")
                /\ trace' = t1
           ELSE /\ pc' = "wait"
                /\ exc' = exc
                /\ trace' = Append(t1, Event("api", <<c>>, r.token, 0, "Bearer"))
    /\ UNCHANGED <<secret, cached, auth_service, client_credentials, session, caller, op,
                   retry_auth, credentials, data, result, http>>
    /\ UNCHANGED <<pureVars, extraVars>>

\* the API answers with a status (lines 239-276); body is the decoded answer
\* when the status leads to parsing
ApiResponse(status, body) ==
    /\ pc = "wait"
    /\ LET d == HandleStatus(status, retry_auth, Endpoint(op), "error body")
           t1 == Append(trace, Event("resp", <<>>, "", status, ""))
       IN  /\ trace' = t1
           /\ body \in (IF d.act = "parse" THEN BodiesFor(op) ELSE {NoData})
           /\ CASE d.act = "retry" ->
                     \* lines 245-248: drop the client's credentials and recurse
                     /\ client_credentials' = <<>>
                     /\ retry_auth' = FALSE
                     /\ pc' = "request"
                     /\ UNCHANGED <<exc, data>>
                [] d.act = "raise" ->
                     /\ pc' = "raised"
                     /\ exc' = d.exc
                     /\ UNCHANGED <<client_credentials, retry_auth, data>>
                [] OTHER ->
                     IF body.kind = "notjson"
                     THEN /\ pc' = "raised"
                          /\ exc' = Exc(ISSClientError, "Invalid response format: {e}", 0, "")
                          /\ UNCHANGED <<client_credentials, retry_auth, data>>
                     ELSE /\ pc' = "returned"
                          /\ data' = body
                          /\ UNCHANGED <<client_credentials, retry_auth, exc>>
    /\ UNCHANGED <<secret, cached, auth_service, session, caller, op, credentials, result,
                   http>>
    /\ UNCHANGED <<pureVars, extraVars>>

\* the API request fails in the transport (lines 278-283)
ApiFailure(f) ==
    /\ pc = "wait"
    /\ pc' = "raised"
    /\ exc' = HandleFailure(f)
    /\ trace' = Append(trace, Event("resp", <<>>, "", 0, f))
    /\ UNCHANGED <<secret, cached, auth_service, client_credentials, session, caller, op,
                   retry_auth, credentials, data, result, http>>
    /\ UNCHANGED <<pureVars, extraVars>>

\* _request has returned or raised: the public operation finishes
OpFinish ==
    /\ pc \in {"raised", "returned"}
    /\ result' = PublicOp(op, pc = "returned", exc, data)
    /\ pc' = "opdone"
    /\ UNCHANGED <<secret, cached, auth_service, client_credentials, session, caller, op,
                   retry_auth, credentials, trace, exc, data, http>>
    /\ UNCHANGED <<pureVars, extraVars>>

\* the route leaves the client (__aexit__ closes the session) and answers
RestFinish ==
    /\ pc = "opdone"
    /\ caller = "rest"
    /\ session' = CloseSession(session)
    /\ http' = RestGetJobStatus(result)
    /\ pc' = "done"
    /\ UNCHANGED <<secret, cached, auth_service, client_credentials, caller, op,
                   retry_auth, credentials, trace, exc, data, result>>
    /\ UNCHANGED <<pureVars, extraVars>>

\* async with client (__aenter__, lines 41-44) before an operation
Enter ==
    /\ pc = "idle"
    /\ session' = EnsureSession(session)
    /\ UNCHANGED <<secret, cached, auth_service, client_credentials, pc, caller, op,
                   retry_auth, credentials, trace, exc, data, result, http>>
    /\ UNCHANGED <<pureVars, extraVars>>

\* await client.close() or __aexit__ (lines 46-48, 73-77) between operations;
\* on a client without an open session the step changes nothing
Close ==
    /\ pc = "idle"
    /\ session' = CloseSession(session)
    /\ UNCHANGED <<secret, cached, auth_service, client_credentials, pc, caller, op,
                   retry_auth, credentials, trace, exc, data, result, http>>
    /\ UNCHANGED <<pureVars, extraVars>>

\* the application starts (main.py lines 57-85): a new AuthService, a new
\* ISSClient entered as a context manager, and get_platforms({}) on it
Lifespan ==
    /\ pc = "idle"
    /\ startup' = "testing"
    /\ ClientInit("None")
    /\ session' = EnsureSession("none")
    /\ Begin("lifespan", "get_platforms")
    /\ UNCHANGED secret
    /\ UNCHANGED <<pureVars, otherVars, authorization, ensured, rotated>>

\* the connectivity test is over (main.py lines 85-95): the client is left
\* and startup completes or fails
LifespanFinish ==
    /\ pc = "opdone"
    /\ caller = "lifespan"
    /\ session' = CloseSession(session)
    /\ startup' = LifespanOutcome(result)
    /\ pc' = "done"
    /\ UNCHANGED <<secret, cached, auth_service, client_credentials, caller, op,
                   retry_auth, credentials, trace, exc, data, result, http>>
    /\ UNCHANGED <<pureVars, otherVars, authorization, ensured, rotated>>

\* the caller has its answer; the client is idle again
Return ==
    /\ \/ pc = "opdone" /\ caller = "direct"
       \/ pc = "done"
    /\ pc' = "idle"
    /\ caller' = "direct"
    /\ op' = "get_jobs"
    /\ retry_auth' = TRUE
    /\ credentials' = <<>>
    /\ trace' = <<>>
    /\ exc' = NoExc
    /\ data' = NoData
    /\ result' = NoResult
    /\ http' = 0
    /\ authorization' = <<>>
    /\ startup' = "none"
    /\ ensured' = ""
    /\ rotated' = FALSE
    /\ UNCHANGED <<secret, cached, auth_service, client_credentials, session>>
    /\ UNCHANGED <<pureVars, otherVars>>

\* the operator of the secret store replaces the secret (credential rotation);
\* observable to the program at its suspension points only
RotateSecret(s) ==
    /\ pc \in {"idle", "token", "wait"}
    /\ s # secret
    /\ secret' = s
    /\ rotated' = (pc # "idle")
    /\ UNCHANGED <<cached, auth_service, client_credentials, session, pc, caller, op,
                   retry_auth, credentials, trace, exc, data, result, http>>
    /\ UNCHANGED <<pureVars, otherVars, authorization, startup, ensured>>

Next ==
    \/ Construct
    \/ \E o \in Ops : Call(o)
    \/ \E h \in Headers : RestGetJob(h)
    \/ \E ok \in BOOLEAN : RequestBegin(ok)
    \/ \E out \in Tokens \cup TokenFailures : TokenResponse(out)
    \/ \E st \in ApiErrorStatuses \cup {200} : \E b \in SampleListings \cup PlainBodies \cup JobBodies \cup {NoData} :
          ApiResponse(st, b)
    \/ \E f \in NetFailures : ApiFailure(f)
    \/ OpFinish
    \/ RestFinish
    \/ Enter
    \/ Close
    \/ Lifespan
    \/ LifespanFinish
    \/ Return
    \/ \E s \in Secrets : RotateSecret(s)

Spec == Init /\ [][Next]_vars

(***************************************************************************)
(* get_jobs on drawn arguments: the params dictionary (lines 315-334).     *)
(***************************************************************************)
InitParams ==
    /\ secret = SecretOAuth1
    /\ ClientIdle
    /\ fpc = "input"
    /\ in_limit \in LimitInputs
    /\ in_filters \in FilterInputs
    /\ out_params = NoParams
    /\ in_data = NoData
    /\ out_result = NoResult
    /\ ExtraIdle

BuildParams ==
    /\ fpc = "input"
    /\ out_params' = GetJobsParams(in_limit, in_filters)
    /\ fpc' = "done"
    /\ UNCHANGED <<clientVars, in_limit, in_filters, in_data, out_result, extraVars>>

NextParams == BuildParams

SpecParams == InitParams /\ [][NextParams]_vars

(***************************************************************************)
(* get_jobs on drawn response bodies: the parse (lines 341-372).           *)
(***************************************************************************)
InitParse ==
    /\ secret = SecretOAuth1
    /\ ClientIdle
    /\ fpc = "input"
    /\ in_limit = 100
    /\ in_filters = NoFilters
    /\ out_params = NoParams
    /\ in_data \in ListingBodies
    /\ out_result = NoResult
    /\ ExtraIdle

ParseListing ==
    /\ fpc = "input"
    /\ out_result' = PublicOp("get_jobs", TRUE, NoExc, in_data)
    /\ fpc' = "done"
    /\ UNCHANGED <<clientVars, in_limit, in_filters, out_params, in_data, extraVars>>

NextParse == ParseListing

SpecParse == InitParse /\ [][NextParse]_vars

(***************************************************************************)
(* auth_service.py: sequences of calls on one AuthService.                 *)
(***************************************************************************)
\* auth_call: the method called, its force_refresh argument, the cache and
\* the last value fetched before the call, the secret the store held and
\* whether the store answered, whether the store was contacted, and what the
\* call returned or raised
AuthCall(method, force_refresh, sec, store_ok, r) ==
    <<[method |-> method, force_refresh |-> force_refresh, before |-> cached,
       last_fetch |-> fetched, sec |-> sec, store_ok |-> store_ok, read |-> r.read,
       ok |-> r.ok, value |-> r.value, exc |-> r.exc.cls]>>

InitAuth ==
    /\ secret \in Secrets
    /\ ClientIdle
    /\ fpc = "off"
    /\ in_limit = 100
    /\ in_filters = NoFilters
    /\ out_params = NoParams
    /\ in_data = NoData
    /\ out_result = NoResult
    /\ ExtraIdle

\* what a call on the AuthService leaves alone
AuthUnchanged ==
    UNCHANGED <<secret, auth_service, client_credentials, session, pc, caller, op,
                retry_auth, credentials, trace, exc, data, result, http, pureVars,
                fsVars, smVars, authorization, startup, ensured, rotated>>

\* await auth_service.get_iss_credentials(force_refresh)
AuthGetCall(force_refresh, store_ok) ==
    LET r == GetIssCredentials(cached, force_refresh, store_ok, secret)
    IN  /\ cached' = r.cache
        /\ fetched' = IF r.read /\ r.ok THEN <<r.value>> ELSE fetched
        /\ auth_call' = AuthCall("get_iss_credentials", force_refresh, secret, store_ok, r)

\* the call made by a single caller
AuthGet(force_refresh, store_ok) ==
    /\ AuthGetCall(force_refresh, store_ok)
    /\ AuthUnchanged
    /\ UNCHANGED <<n_calls, n_reads>>

\* await auth_service.refresh_credentials() (lines 124-132): the cache is
\* cleared, then get_iss_credentials(force_refresh=True) runs
AuthRefresh(store_ok) ==
    /\ LET r == GetIssCredentials(<<>>, TRUE, store_ok, secret)
       IN  /\ cached' = r.cache
           /\ fetched' = IF r.read /\ r.ok THEN <<r.value>> ELSE fetched
           /\ auth_call' = AuthCall("refresh_credentials", TRUE, secret, store_ok, r)
    /\ AuthUnchanged
    /\ UNCHANGED <<n_calls, n_reads>>

\* auth_service.clear_cache() (lines 134-137)
AuthClearCache ==
    /\ cached' = <<>>
    /\ fetched' = fetched
    /\ auth_call' = AuthCall("clear_cache", FALSE, secret, TRUE,
                             [read |-> FALSE, ok |-> TRUE,
                              value |-> Credentials(NoneStr, NoneStr, NoneStr, NoneStr),
                              exc |-> NoExc])
    /\ AuthUnchanged
    /\ UNCHANGED <<n_calls, n_reads>>

NextAuth ==
    \/ \E f \in BOOLEAN : \E ok \in BOOLEAN : AuthGet(f, ok)
    \/ \E ok \in BOOLEAN : AuthRefresh(ok)
    \/ AuthClearCache
    \/ \E s \in Secrets : RotateSecret(s)

SpecAuth == InitAuth /\ [][NextAuth]_vars

(***************************************************************************)
(* N coroutines call get_iss_credentials on one AuthService.  The call has *)
(* no suspension point, so an interleaving of the N calls is an order of N *)
(* whole calls; the secret may be replaced between any two of them.        *)
(***************************************************************************)
MaxCalls == 3

\* one of the concurrent callers runs its call
ConcGet(force_refresh, store_ok) ==
    /\ n_calls < MaxCalls
    /\ AuthGetCall(force_refresh, store_ok)
    /\ n_calls' = n_calls + 1
    /\ n_reads' = IF auth_call'[1].read THEN n_reads + 1 ELSE n_reads
    /\ AuthUnchanged

NextConc ==
    \/ \E f \in BOOLEAN : \E ok \in BOOLEAN : ConcGet(f, ok)
    \/ \E s \in Secrets : RotateSecret(s)

SpecConc == InitAuth /\ [][NextConc]_vars

(***************************************************************************)
(* file_service.py: FileService.  A path or an archive entry name is a     *)
(* sequence of pieces of text, "/" being a piece of its own.               *)
(***************************************************************************)
FileServiceException == "FileServiceException"
FileServiceError == FileServiceException
FileAccessError == FileServiceException
FileNotFoundError == FileServiceException

RECURSIVE LStrip(_)
\* str.lstrip('/')
LStrip(p) == IF p # <<>> /\ Head(p) = "/" THEN LStrip(Tail(p)) ELSE p

RECURSIVE RStrip(_)
\* str.rstrip('/')
RStrip(p) ==
    IF p # <<>> /\ p[Len(p)] = "/" THEN RStrip(SubSeq(p, 1, Len(p) - 1)) ELSE p

\* str.strip('/')
Strip(p) == RStrip(LStrip(p))

\* name.endswith(suffix)
EndsWith(name, suffix) ==
    /\ Len(suffix) <= Len(name)
    /\ SubSeq(name, Len(name) - Len(suffix) + 1, Len(name)) = suffix

\* sub in name
Contains(name, sub) ==
    \E i \in 0..(Len(name) - Len(sub)) : SubSeq(name, i + 1, i + Len(sub)) = sub

\* what iss_client.get_job gave _get_artifact_type_for_job: a job with its
\* job_type (NoneStr: no such attribute) or an exception
Lookup(ok, job_type) == [ok |-> ok, job_type |-> job_type]

\* ArtifactTypeForJob where an unknown job type raises
ArtifactTypeForJobStrict(has_client, lookup) ==
    IF ~has_client THEN "iwps"
    ELSE IF ~lookup.ok THEN "iwps"
    ELSE CASE lookup.job_type = "ISIM" -> "isim"
           [] lookup.job_type = "NovaCoho" -> "coho"
           [] lookup.job_type = "IWPS" -> "iwps"
           [] lookup.job_type = "WorkloadJob" -> "workloadjob"
           [] lookup.job_type = "WorkloadJobROI" -> "workloadjobroi"
           [] OTHER -> "raise"

\* FileService._get_artifact_type_for_job (lines 112-155)
ArtifactTypeForJob(has_client, lookup) ==
    IF ~has_client THEN "iwps"
    ELSE IF ~lookup.ok THEN "iwps"
    ELSE CASE lookup.job_type = "ISIM" -> "isim"
           [] lookup.job_type = "NovaCoho" -> "coho"
           [] lookup.job_type = "IWPS" -> "iwps"
           [] lookup.job_type = "WorkloadJob" -> "workloadjob"
           [] lookup.job_type = "WorkloadJobROI" -> "workloadjobroi"
           [] OTHER -> "iwps"

WorkloadArtifacts == {"workloadjob", "workloadjobroi"}

\* list_files, lines 227-233: the path it requests
ListFilesPath(job_id, artifact_type, path) ==
    IF artifact_type \in WorkloadArtifacts
    THEN <<"fs/files/", job_id, "/logs">>
    ELSE <<"fs/files/", job_id, "/", artifact_type, "/artifacts/out">>
         \o (IF path # <<>> THEN <<"/">> \o Strip(path) ELSE <<>>)

\* download_file, lines 277-287: the archive a workload-job path names
\* (NoneStr: none, the path is refused)
ZipFileFor(file_path) ==
    IF Contains(Strip(file_path), <<"serialconsole">>) THEN "serialconsole"
    ELSE IF Contains(Strip(file_path), <<"simics">>) THEN "simics"
    ELSE NoneStr

\* download_file, lines 275-287: the path it requests
DownloadPath(job_id, artifact_type, file_path) ==
    IF artifact_type \in WorkloadArtifacts
    THEN <<"fs/files/", job_id, "/logs/all/", ZipFileFor(file_path)>>
    ELSE <<"fs/files/", job_id, "/", artifact_type, "/artifacts/out/">> \o Strip(file_path)

\* what list_files or download_file returned or raised: cls the class of
\* the exception, inner the error the message reports
FsResult(ok, cls, inner, files, content) ==
    [ok |-> ok, cls |-> cls, inner |-> inner, files |-> files, content |-> content]

FsNoResult == FsResult(FALSE, "", "", <<>>, "")

\* lines 259-261 and 341-343: the catch-all handler of list_files and of
\* download_file wraps whatever was raised
FsWrap(inner) == FsResult(FALSE, FileServiceError, inner, <<>>, "")

\* bytes fetched by download_file: a zip archive with its entries in order,
\* or bytes that are no archive (plain)
Archive(entries) == [zip |-> TRUE, entries |-> entries, plain |-> ""]
Bytes(b) == [zip |-> FALSE, entries |-> <<>>, plain |-> b]
Entry(name, d) == [name |-> name, data |-> d]

\* lines 311-315: the first entry name, in archive order, that contains the
\* requested path or ends with it (0: none)
FirstMatch(entries, p) ==
    LET hits == {i \in DOMAIN entries :
                    Contains(entries[i].name, p) \/ EndsWith(entries[i].name, p)}
    IN  IF hits = {} THEN 0 ELSE CHOOSE i \in hits : \A j \in hits : i <= j

\* zip_ref.read(name): the data of the last entry stored under that name
ZipRead(entries, name) ==
    LET same == {i \in DOMAIN entries : entries[i].name = name}
    IN  entries[CHOOSE i \in same : \A j \in same : j <= i].data

\* download_file, lines 296-333: the extraction from the fetched bytes
ExtractFromZip(content, file_path) ==
    IF ~content.zip
    THEN FsWrap("Invalid zip file format")
    ELSE LET p == Strip(file_path)
             first == FirstMatch(content.entries, p)
             target == IF first # 0 THEN <<content.entries[first].name>>
                       ELSE IF \E i \in DOMAIN content.entries : content.entries[i].name = p
                       THEN <<p>>
                       ELSE <<>>
         IN  IF target = <<>>
             THEN FsWrap("not found in zip archive")
             ELSE FsResult(TRUE, "", "", <<>>, ZipRead(content.entries, target[1]))

\* FileService._request, lines 190-209: what a status or a transport failure
\* raises ("": the response is returned)
FsHandleStatus(status, failure) ==
    IF failure = "ClientError" THEN "Network error"
    ELSE IF failure = "TimeoutError" THEN "Request timeout"
    ELSE IF status = 404 THEN "File not found"
    ELSE IF status = 401 THEN "Authentication failed"
    ELSE IF status = 403 THEN "Access denied"
    ELSE IF status >= 400 THEN "Request failed with status"
    ELSE ""

\* an element of the list of a listing answer: a name, an object with or
\* without a name, or null
FileEntry(kind, name) == [kind |-> kind, name |-> name]

RECURSIVE ListNames(_)
\* list_files, lines 243-257: the names kept from the listed elements
ListNames(elems) ==
    IF elems = <<>> THEN <<>>
    ELSE LET e == Head(elems)
             keep == \/ e.kind = "str"
                     \/ e.kind = "object" /\ e.name # Absent /\ e.name # ""
         IN  (IF keep THEN <<e.name>> ELSE <<>>) \o ListNames(Tail(elems))

\* a listing answer: the body is an object or not, with the elements under
\* "files" and under "children"
FsListing(is_dict, files, children) ==
    [is_dict |-> is_dict, files |-> files, children |-> children]

\* list_files, lines 238-258: the names returned for a decoded answer
ListFilesParse(artifact_type, body) ==
    IF ~body.is_dict
    THEN FsWrap("object has no attribute 'get'")
    ELSE FsResult(TRUE, "", "",
                  ListNames(IF artifact_type \in WorkloadArtifacts THEN body.children
                            ELSE body.files), "")

\* the paths callers ask for
PathConsole == <<"simics", "/", "console.log">>
PathSlashed == <<"/", "simics", "/", "console.log">>
PathMissing == <<"missing", "/", "file.log">>
PathSimicsMissing == <<"simics", "/", "missing.log">>
PathSerial == <<"serialconsole", "/", "simics", ".log">>
PathDir == <<"logs", "/">>
FilePaths == {<<>>, PathConsole, PathSlashed, PathMissing, PathSimicsMissing, PathSerial,
              PathDir}

\* the outcomes of the job lookup
Lookups ==
    {Lookup(TRUE, t) : t \in JobTypeValues \cup {NoneStr}} \cup {Lookup(FALSE, NoneStr)}

\* entries of the archives the file service serves
EntryConsole == Entry(PathConsole, "console")
EntryOld == Entry(<<"old", "/", "simics", "/", "console.log">>, "old console")
EntryBak == Entry(<<"simics", "/", "console.log", ".bak">>, "console backup")
EntryBoot == Entry(<<"serialconsole", "/", "boot.log">>, "boot")
ZipEntries == {EntryConsole, EntryOld, EntryBak, EntryBoot}

MaxEntries == 2

\* archives of up to MaxEntries entries with different names, and bytes that
\* are no archive
Contents ==
    {Archive(es) : es \in {q \in SeqsUpTo(ZipEntries, MaxEntries) :
                              \A i, j \in DOMAIN q : i # j => q[i] # q[j]}}
    \cup {Bytes("raw")}

\* decoded answers to a listing request
SampleElems ==
    <<FileEntry("str", "a.log"), FileEntry("object", "b.log"), FileEntry("object", Absent),
      FileEntry("null", Absent)>>
Listings ==
    {FsListing(TRUE, SampleElems, <<>>), FsListing(TRUE, <<>>, SampleElems),
     FsListing(FALSE, <<>>, <<>>)}

FsStatuses == {200, 401, 403, 404, 500}

\* entries of fs_trace: the job lookup with what it gave, a request with its
\* path, an answer with its status or transport failure and the bytes read
FsLookup(has_client, lookup) ==
    [ev |-> "lookup", path |-> <<>>, st |-> 0, body |-> Bytes(""),
     what |-> IF ~has_client THEN "no client" ELSE IF ~lookup.ok THEN "failed"
              ELSE lookup.job_type]
FsReq(path) == [ev |-> "req", path |-> path, st |-> 0, what |-> "", body |-> Bytes("")]
FsResp(status, failure, body) ==
    [ev |-> "resp", path |-> <<>>, st |-> status, what |-> failure, body |-> body]

FsUnchanged ==
    UNCHANGED <<clientVars, pureVars, auth_call, fetched, smVars, authorization,
                n_calls, n_reads, startup, ensured, rotated>>

\* list_files or download_file is called on a FileService built with or
\* without an iss_client
FsCall(o, p, has_client) ==
    /\ fs_pc = "idle"
    /\ fs_pc' = "lookup"
    /\ fs_op' = o
    /\ fs_file_path' = p
    /\ fs_client' = has_client
    /\ fs_artifact' = ""
    /\ fs_trace' = <<>>
    /\ fs_result' = FsNoResult
    /\ FsUnchanged

\* lines 224-236 and 273-289: the artifact type is resolved, the path built
\* and the request sent, unless download_file refuses the path
FsResolve(lookup) ==
    /\ fs_pc = "lookup"
    /\ ~fs_client => lookup = Lookup(FALSE, NoneStr)
    /\ LET a == ArtifactTypeForJob(fs_client, lookup)
           t1 == Append(fs_trace, FsLookup(fs_client, lookup))
       IN  /\ fs_artifact' = a
           /\ IF fs_op = "download_file" /\ a \in WorkloadArtifacts
                 /\ ZipFileFor(fs_file_path) = NoneStr
              THEN /\ fs_pc' = "done"
                   /\ fs_result' = FsWrap("Invalid file path")
                   /\ fs_trace' = t1
              ELSE /\ fs_pc' = "wait"
                   /\ fs_result' = fs_result
                   /\ fs_trace' = Append(t1,
                         FsReq(IF fs_op = "list_files"
                               THEN ListFilesPath("j1", a, fs_file_path)
                               ELSE DownloadPath("j1", a, fs_file_path)))
    /\ UNCHANGED <<fs_op, fs_client, fs_file_path>>
    /\ FsUnchanged

\* the file service answers (or the transport fails): _request returns the
\* response or raises, and the operation finishes
FsResponse(status, failure, listing, content) ==
    /\ fs_pc = "wait"
    /\ failure = "" <=> status # 0
    /\ fs_pc' = "done"
    /\ fs_trace' = Append(fs_trace,
          FsResp(status, failure, IF fs_op = "download_file" /\ status = 200 THEN content
                                  ELSE Bytes("")))
    /\ LET inner == FsHandleStatus(status, failure)
       IN  fs_result' =
             IF inner # "" THEN FsWrap(inner)
             ELSE IF fs_op = "list_files" THEN ListFilesParse(fs_artifact, listing)
             ELSE IF fs_artifact \in WorkloadArtifacts
             THEN ExtractFromZip(content, fs_file_path)
             ELSE FsResult(TRUE, "", "", <<>>, IF content.zip THEN "archive bytes"
                                                 ELSE content.plain)
    /\ UNCHANGED <<fs_op, fs_client, fs_file_path, fs_artifact>>
    /\ FsUnchanged

\* the caller takes the result
FsReturn ==
    /\ fs_pc = "done"
    /\ fs_pc' = "idle"
    /\ UNCHANGED <<fs_op, fs_client, fs_file_path, fs_artifact, fs_trace, fs_result>>
    /\ FsUnchanged

InitFile ==
    /\ secret = SecretOAuth1
    /\ ClientIdle
    /\ fpc = "off"
    /\ in_limit = 100
    /\ in_filters = NoFilters
    /\ out_params = NoParams
    /\ in_data = NoData
    /\ out_result = NoResult
    /\ ExtraIdle

NextFile ==
    \/ \E o \in {"list_files", "download_file"} : \E p \in FilePaths :
          \E c \in BOOLEAN : FsCall(o, p, c)
    \/ \E l \in Lookups : FsResolve(l)
    \/ \E st \in FsStatuses \cup {0} : \E f \in {"", "ClientError", "TimeoutError"} :
          \E l \in Listings : \E c \in Contents : FsResponse(st, f, l, c)
    \/ FsReturn

SpecFile == InitFile /\ [][NextFile]_vars

(***************************************************************************)
(* utils/response_summarizer.py: summarize_jobs_response.                  *)
(***************************************************************************)
\* a job of the response: the fields summarize_job keeps and one it drops
SmJob(id, name, verbose) == [JobRequestID |-> id, Name |-> name, Verbose |-> verbose]

\* summarize_job(job, include_details=False) (lines 9-66)
SummarizeJob(job) == [JobRequestID |-> job.JobRequestID, Name |-> job.Name]

\* len(str(summarized_job)) of the jobs the model draws
SummaryChars(sj) ==
    CASE sj.Name = "small" -> 20
      [] sj.Name = "medium" -> 30
      [] OTHER -> 60

\* max_jobs and len(summarized_jobs) >= max_jobs (line 110); None and 0 are
\* falsy
MaxJobsReached(max_jobs, n) ==
    max_jobs # <<>> /\ max_jobs[1] # 0 /\ n >= max_jobs[1]

RECURSIVE SummarizeLoopSkip(_, _, _, _, _)
\* SummarizeLoop going on to the next job, instead of stopping, when a job
\* does not fit
SummarizeLoopSkip(jobs, acc, total_chars, max_jobs, max_chars) ==
    IF jobs = <<>> THEN acc
    ELSE LET sj == SummarizeJob(Head(jobs))
         IN  IF total_chars + SummaryChars(sj) > max_chars
             THEN SummarizeLoopSkip(Tail(jobs), acc, total_chars, max_jobs, max_chars)
             ELSE IF MaxJobsReached(max_jobs, Len(acc) + 1)
             THEN Append(acc, sj)
             ELSE SummarizeLoopSkip(Tail(jobs), Append(acc, sj),
                                    total_chars + SummaryChars(sj), max_jobs, max_chars)

RECURSIVE SummarizeLoop(_, _, _, _, _)
\* the loop of summarize_jobs_response (lines 92-111)
SummarizeLoop(jobs, acc, total_chars, max_jobs, max_chars) ==
    IF jobs = <<>> THEN acc
    ELSE LET sj == SummarizeJob(Head(jobs))
         IN  IF total_chars + SummaryChars(sj) > max_chars
             THEN acc
             ELSE IF MaxJobsReached(max_jobs, Len(acc) + 1)
             THEN Append(acc, sj)
             ELSE SummarizeLoop(Tail(jobs), Append(acc, sj),
                                total_chars + SummaryChars(sj), max_jobs, max_chars)

\* summarize_jobs_response (lines 70-124)
SummarizeJobsResponse(jobs, max_jobs, max_chars) ==
    LET summarized_jobs == SummarizeLoop(jobs, <<>>, 0, max_jobs, max_chars)
    IN  [jobs |-> summarized_jobs, count |-> Len(summarized_jobs),
         total_available |-> Len(jobs),
         truncated |-> Len(summarized_jobs) < Len(jobs)]

MaxItems == 3

SmJobs ==
    {SmJob("id-1", "small", "v1"), SmJob("id-2", "medium", "v2"),
     SmJob("id-3", "large", "v3")}
SmMaxJobs == {<<>>, <<0>>, <<1>>, <<2>>, <<5>>, <<-1>>}
SmMaxChars == {0, 50, 100, 50000}

InitSummary ==
    /\ secret = SecretOAuth1
    /\ ClientIdle
    /\ fpc = "off"
    /\ in_limit = 100
    /\ in_filters = NoFilters
    /\ out_params = NoParams
    /\ in_data = NoData
    /\ out_result = NoResult
    /\ AuthFileIdle
    /\ sm_pc = "input"
    /\ sm_jobs \in SeqsUpTo(SmJobs, MaxItems)
    /\ sm_max_jobs \in SmMaxJobs
    /\ sm_max_chars \in SmMaxChars
    /\ sm_out = [jobs |-> <<>>, count |-> 0, total_available |-> 0, truncated |-> FALSE]

Summarize ==
    /\ sm_pc = "input"
    /\ sm_out' = SummarizeJobsResponse(sm_jobs, sm_max_jobs, sm_max_chars)
    /\ sm_pc' = "done"
    /\ UNCHANGED <<clientVars, pureVars, auth_call, fetched, fsVars, sm_jobs, sm_max_jobs,
                   sm_max_chars, authorization, n_calls, n_reads, startup, ensured, rotated>>

NextSummary == Summarize

SpecSummary == InitSummary /\ [][NextSummary]_vars

(***************************************************************************)
(* Properties.                                                             *)
(***************************************************************************)
\* positions of trace holding API requests, API responses and store reads
ApiIdx == {i \in DOMAIN trace : trace[i].ev = "api"}
RespIdx == {i \in DOMAIN trace : trace[i].ev = "resp"}
ReadIdx == {i \in DOMAIN trace : trace[i].ev = "read"}
TokenIdx == {i \in DOMAIN trace : trace[i].ev = "token"}
ApiSent == Cardinality(ApiIdx)
Got401 == {i \in RespIdx : trace[i].st = 401}
FirstIs401 == \E i \in Got401 : \A j \in RespIdx : i <= j
\* _request has returned or raised
RequestDone == pc \in {"raised", "returned", "opdone", "done"}
\* the public operation has returned or raised
OpDone == pc \in {"opdone", "done"}
\* statuses >= 400 that _request does not answer with a retry
OtherErrorStatuses == ApiErrorStatuses \ {401}

\* C1 as stated: at most 2 API requests per logical operation; a first 401 is
\* always followed by exactly one further API request; a second 401 makes
\* _request fail with an authentication error.
C1_Original ==
    /\ ApiSent <= 2
    /\ (RequestDone /\ FirstIs401) => ApiSent = 2
    /\ (RequestDone /\ Cardinality(Got401) = 2) => exc.cls = AuthenticationError

\* C1 amended: at most 2 API requests per logical operation, the second only
\* after a first 401; after a first 401 exactly one further request is sent
\* unless the retry fails before sending (credential fetch or token exchange
\* of the retry fails), and then _request raises that failure; a second 401
\* makes _request fail with an authentication error and nothing further is sent.
C1_RetryOnce ==
    /\ ApiSent <= 2
    /\ ApiSent = 2 => FirstIs401
    /\ (RequestDone /\ FirstIs401 /\ ApiSent = 1) =>
          /\ pc # "returned"
          /\ exc.cls # ""
          /\ \/ trace[Len(trace)].ev = "token_resp" /\ trace[Len(trace)].what \in TokenFailures
             \/ trace[Len(trace)].ev = "read"
    /\ (RequestDone /\ Cardinality(Got401) = 2) =>
          /\ exc.cls = AuthenticationError
          /\ ApiSent = 2
          /\ trace[Len(trace)].ev = "resp" /\ trace[Len(trace)].st = 401

\* C1 witness: both the request and its retry were answered 401 and _request
\* raised the authentication error
C1_Witness ==
    /\ pc = "raised"
    /\ Cardinality(Got401) = 2
    /\ ApiSent = 2
    /\ exc.cls = AuthenticationError

\* C2 as stated: every API request sent after a 401 is preceded, after that
\* 401, by a read of the secret store (and for OAuth2 credentials by a token
\* exchange), and is sent with the credentials that read returned.
C2_Original ==
    \A i \in ApiIdx : \A j \in Got401 :
        j < i =>
          /\ \E k \in ReadIdx : j < k /\ k < i /\ trace[k].cr = trace[i].cr
          /\ AuthPath(trace[i].cr[1]) = "oauth" => \E k \in TokenIdx : j < k /\ k < i

\* C3 as stated: after two 401 answers every public operation raises the
\* AuthenticationError kind.
C3_Original ==
    (OpDone /\ Cardinality(Got401) = 2) =>
        (~result.ok /\ result.exc.cls = AuthenticationError)

\* C4: every failure of get_jobs reaches the caller as ISSClientError, whether
\* it is a credential-provider failure, a remote error status, a transport
\* failure or an error raised while parsing the listing.
C4_GetJobsRaisesClientError ==
    (OpDone /\ op = "get_jobs") =>
        /\ ~result.ok => result.exc.cls = ISSClientError
        /\ exc.cls # "" => ~result.ok
        /\ (pc = "opdone" /\ data.kind = "listing" /\ data.JobsKind = "null") => ~result.ok

\* C4 witness: get_jobs failed on a credential-provider authentication
\* failure and the caller got ISSClientError
C4_Witness ==
    /\ pc = "opdone"
    /\ op = "get_jobs"
    /\ ApiSent = 0
    /\ exc.cls = AuthenticationError
    /\ ~result.ok
    /\ result.exc.cls = ISSClientError

\* C5: a response with status 403, 404, 429 or 500, or a transport failure or
\* timeout, ends the logical operation: it is the last outbound event of the
\* operation and _request raises, on the first attempt and on the retry.
C5_NoRetryOnOtherErrors ==
    \A i \in RespIdx :
        (trace[i].st \in OtherErrorStatuses \/ trace[i].what \in NetFailures) =>
            /\ i = Len(trace)
            /\ pc \in {"raised", "opdone", "done"}
            /\ exc.cls # ""

\* C5 witness: the retry that followed a 401 was answered 429 and _request
\* raised at once
C5_Witness ==
    /\ pc = "raised"
    /\ ApiSent = 2
    /\ trace[Len(trace)].ev = "resp"
    /\ trace[Len(trace)].st = 429
    /\ exc.cls = ISSRateLimitError

\* C6 as stated: the final status maps to an error kind (404 NotFound, 429
\* RateLimited, any other status >= 400 but 401 RemoteClientError carrying
\* the status) and a caller can tell the three kinds apart: the handler for
\* NotFound catches neither of the other two.
C6_Original ==
    (pc = "raised" /\ trace # <<>> /\ trace[Len(trace)].ev = "resp") =>
        LET st == trace[Len(trace)].st
        IN  /\ st = 404 => exc.cls = ISSNotFoundError
            /\ st = 429 => (exc.cls = ISSRateLimitError
                            /\ ~IsInstance(exc.cls, ISSNotFoundError))
            /\ st \in OtherErrorStatuses \ {404, 429} =>
                  /\ exc.cls = ISSClientError
                  /\ exc.arg_status = st
                  /\ ~IsInstance(exc.cls, ISSNotFoundError)

WellFormed(rec) ==
    /\ rec.shape = "dict"
    /\ rec.Metadata \in {Absent, "dict"}
    /\ JobRequestValid(rec)

\* the well-formed records of a listing, converted, in the server's order
WellFormedJobs(recs) ==
    LET sel == SelectSeq(recs, WellFormed)
    IN  [i \in 1..Len(sel) |-> JobRequest(sel[i])]

\* C8 as stated: whatever way records of a listing are malformed, get_jobs
\* returns, and returns exactly the well-formed records in the server's order.
C8_Original ==
    (fpc = "done" /\ in_data.kind = "listing" /\ in_data.JobsKind = "list"
        /\ in_data.CountKind # "null") =>
        (out_result.ok /\ out_result.jobs = WellFormedJobs(in_data.Jobs))

\* C9 as stated: the count of the returned ListingPage is the length of its
\* jobs list, whatever Count the server reported.
C9_Original ==
    (fpc = "done" /\ out_result.ok) => out_result.count = Len(out_result.jobs)

\* the entry the mapping table gives a filter that counts as supplied
TableEntry(key, supplied, value) == IF supplied THEN {<<key, value>>} ELSE {}

\* C10 as stated, a supplied filter being an argument that is not None: the
\* query parameters are exactly the mapped key and unchanged value of each
\* supplied filter.
C10_Original ==
    fpc = "done" =>
        out_params.query =
            TableEntry("JobRequestStatus", in_filters.status # NoneStr,
                       IF in_filters.status = NoneStr THEN NoneStr
                       ELSE JobStatusValue(in_filters.status))
            \cup TableEntry("JobRequestID", in_filters.job_request_id # NoneStr,
                            in_filters.job_request_id)
            \cup TableEntry("Type", in_filters.job_type # NoneStr, in_filters.job_type)
            \cup TableEntry("Queue", in_filters.queue # NoneStr, in_filters.queue)
            \cup TableEntry("RequestedBy", in_filters.requested_by # NoneStr,
                            in_filters.requested_by)
            \cup TableEntry("ParentInstanceID", in_filters.parent_instance_id # NoneStr,
                            in_filters.parent_instance_id)
            \cup TableEntry("WorkloadJobROIID", in_filters.workload_job_roi_id # NoneStr,
                            in_filters.workload_job_roi_id)
            \cup TableEntry("ContinuationToken", in_filters.continuation_token # NoneStr,
                            in_filters.continuation_token)

\* a filter argument that is neither None nor the empty string
NonEmpty(arg) == arg # NoneStr /\ arg # ""

\* C10 amended: the query parameters are exactly, for each filter supplied
\* with a non-empty value, its mapped key with the caller's value unchanged;
\* no key is sent for a filter that is omitted or passed as an empty string.
C10_ParamsMapping ==
    fpc = "done" =>
        out_params.query =
            TableEntry("JobRequestStatus", NonEmpty(in_filters.status),
                       IF in_filters.status = NoneStr THEN NoneStr
                       ELSE JobStatusValue(in_filters.status))
            \cup TableEntry("JobRequestID", NonEmpty(in_filters.job_request_id),
                            in_filters.job_request_id)
            \cup TableEntry("Type", NonEmpty(in_filters.job_type), in_filters.job_type)
            \cup TableEntry("Queue", NonEmpty(in_filters.queue), in_filters.queue)
            \cup TableEntry("RequestedBy", NonEmpty(in_filters.requested_by),
                            in_filters.requested_by)
            \cup TableEntry("ParentInstanceID", NonEmpty(in_filters.parent_instance_id),
                            in_filters.parent_instance_id)
            \cup TableEntry("WorkloadJobROIID", NonEmpty(in_filters.workload_job_roi_id),
                            in_filters.workload_job_roi_id)
            \cup TableEntry("ContinuationToken", NonEmpty(in_filters.continuation_token),
                            in_filters.continuation_token)

\* C10 witness: get_jobs built its parameters from a status, a job type and a
\* requester, with an empty queue and the other filters omitted
C10_Witness ==
    /\ fpc = "done"
    /\ in_filters.status = "COMPLETE"
    /\ in_filters.job_type = "IWPS,ISIM"
    /\ in_filters.requested_by = "alice"
    /\ in_filters.queue = ""
    /\ in_filters.continuation_token = NoneStr
    /\ in_filters.job_request_id = NoneStr
    /\ in_filters.parent_instance_id = NoneStr
    /\ in_filters.workload_job_roi_id = NoneStr
    /\ out_params.query = {<<"JobRequestStatus", "complete">>, <<"Type", "IWPS,ISIM">>,
                           <<"RequestedBy", "alice">>}

\* C11: for every integer limit, the Limit parameter get_jobs sends lies in
\* [1, 100]: the input itself when it is in range, 1 when it is below 1 and
\* 100 when it is above 100.
C11_LimitClamped ==
    fpc = "done" =>
        /\ out_params.Limit \in 1..100
        /\ in_limit \in 1..100 => out_params.Limit = in_limit
        /\ in_limit < 1 => out_params.Limit = 1
        /\ in_limit > 100 => out_params.Limit = 100

\* C11 witness: get_jobs was called with a negative limit and sends Limit 1
C11_Witness ==
    /\ fpc = "done"
    /\ in_limit < 0
    /\ out_params.Limit = 1

\* the last call on the AuthService was get_iss_credentials
LastGet == auth_call # <<>> /\ auth_call[1].method = "get_iss_credentials"

\* C12: a get_iss_credentials call contacts the secret store exactly when it
\* is made with force_refresh set or while nothing is cached; every other call
\* returns, without contacting the store, the value cached by the last
\* successful fetch, and the cache always holds the last value fetched.
C12_CacheOrFetch ==
    /\ cached # <<>> => cached = fetched
    /\ LastGet =>
          LET c == auth_call[1]
          IN  /\ c.read <=> (c.force_refresh \/ c.before = <<>>)
              /\ ~c.read =>
                    /\ c.ok
                    /\ c.value = c.before[1]
                    /\ c.before = c.last_fetch
                    /\ cached = c.before

\* C12 witness: after the secret was rotated, a call without force_refresh
\* returned the cached value of the former secret and left the store alone
C12_Witness ==
    /\ LastGet
    /\ ~auth_call[1].force_refresh
    /\ ~auth_call[1].read
    /\ auth_call[1].sec = SecretOAuth2
    /\ auth_call[1].value = Credentials(NoneStr, NoneStr, "c1", "s1")

\* a Credentials value with an authentication method: neither field of the
\* pair is None
Populated(c) ==
    \/ c.username # NoneStr /\ c.password # NoneStr
    \/ c.client_id # NoneStr /\ c.client_secret # NoneStr

\* C13 as stated: every Credentials value get_iss_credentials returns, and
\* every cached one, has an authentication method populated.
C13_Original ==
    /\ cached # <<>> => Populated(cached[1])
    /\ (auth_call # <<>> /\ auth_call[1].method # "clear_cache" /\ auth_call[1].ok) =>
          Populated(auth_call[1].value)

\* the stored secret has neither pair of keys
LacksBothPairs(sec) ==
    /\ sec.username = Absent \/ sec.password = Absent
    /\ sec.client_id = Absent \/ sec.client_secret = Absent

\* C14: every failure of get_iss_credentials is an AuthenticationError, and a
\* failing secret store, a secret that is not JSON and a secret lacking both
\* credential pairs each make the call that reads the store fail.
C14_FailuresAreAuthenticationError ==
    auth_call # <<>> =>
        LET c == auth_call[1]
        IN  /\ ~c.ok => c.exc = AuthenticationError
            /\ c.ok => c.exc = ""
            /\ (c.read /\ (~c.store_ok \/ ~c.sec.json \/ LacksBothPairs(c.sec))) => ~c.ok

\* C14 witness: the store answered with a secret that is not JSON and the
\* call raised AuthenticationError
C14_Witness ==
    /\ LastGet
    /\ auth_call[1].store_ok
    /\ auth_call[1].sec = SecretInvalidJson
    /\ ~auth_call[1].ok
    /\ auth_call[1].exc = AuthenticationError

\* every API request of the trace carries one mechanism, the one its
\* credentials call for: a bearer token for a client pair, Basic otherwise
OneMechanism ==
    \A i \in ApiIdx :
        LET c == trace[i].cr[1]
        IN  /\ AuthPath(c) = "oauth" => (trace[i].what = "Bearer" /\ trace[i].tok \in Tokens)
            /\ AuthPath(c) = "basic" => (trace[i].what = "Basic" /\ trace[i].tok = "")
            /\ AuthPath(c) # "none"

\* credentials with neither pair make _request fail before any API request
NeitherPairFails ==
    (RequestDone /\ credentials # <<>> /\ AuthPath(credentials[1]) = "none") =>
        (exc.cls # "" /\ ApiSent = 0)

\* C15 as stated: for every Credentials value an API request carries exactly
\* one mechanism, Bearer after the token exchange when the client pair is
\* present (the exchange that gave a token is followed by the API request),
\* Basic when the user pair is used instead; with neither pair the call fails
\* and no API request is sent.
C15_Original ==
    /\ OneMechanism
    /\ NeitherPairFails
    /\ \A i \in DOMAIN trace :
          (trace[i].ev = "token_resp" /\ trace[i].tok \in Tokens) =>
              (i < Len(trace) /\ trace[i + 1].ev = "api")

\* positions of fs_trace holding requests and answers
FsReqIdx == {i \in DOMAIN fs_trace : fs_trace[i].ev = "req"}
FsRespIdx == {i \in DOMAIN fs_trace : fs_trace[i].ev = "resp"}
FsLast == fs_trace[Len(fs_trace)]

\* C16 as stated: when the file service answers a list_files or
\* download_file request with 401, the request is sent once more, so the
\* finished operation has sent two requests.
C16_Original ==
    (fs_pc = "done" /\ \E i \in FsRespIdx : fs_trace[i].st = 401) =>
        Cardinality(FsReqIdx) = 2

ArtifactTags == {"iwps", "isim", "coho", "workloadjob", "workloadjobroi"}

\* C17: once resolved, the artifact type is one of the five tags whatever the
\* lookup gave (any job type, a failure, no client): the tag of the job type
\* for ISIM, NovaCoho, IWPS, WorkloadJob and WorkloadJobROI and iwps for
\* everything else, and list_files then requests the iwps path.
C17_ArtifactTypeTotal ==
    fs_pc \in {"wait", "done"} =>
        LET what == fs_trace[1].what
        IN  /\ fs_trace[1].ev = "lookup"
            /\ fs_artifact \in ArtifactTags
            /\ fs_artifact =
                  CASE what = "ISIM" -> "isim"
                    [] what = "NovaCoho" -> "coho"
                    [] what = "WorkloadJob" -> "workloadjob"
                    [] what = "WorkloadJobROI" -> "workloadjobroi"
                    [] OTHER -> "iwps"
            /\ (fs_op = "list_files" /\ fs_artifact = "iwps") =>
                  /\ Len(fs_trace) >= 2
                  /\ fs_trace[2].ev = "req"
                  /\ SubSeq(fs_trace[2].path, 1, 5) =
                        <<"fs/files/", "j1", "/", "iwps", "/artifacts/out">>

\* C17 witness: list_files on a job of type Custom sent its request for the
\* iwps path
C17_Witness ==
    /\ fs_pc = "wait"
    /\ fs_op = "list_files"
    /\ fs_trace[1].what = "Custom"
    /\ fs_artifact = "iwps"
    /\ fs_trace[2].path = <<"fs/files/", "j1", "/", "iwps", "/artifacts/out">>

\* download_file of a workload-job artifact got an answer with status 200
ZipFetched ==
    /\ fs_pc = "done"
    /\ fs_op = "download_file"
    /\ fs_artifact \in WorkloadArtifacts
    /\ FsLast.ev = "resp"
    /\ FsLast.st = 200

\* C18 as stated: when the fetched archive has an entry named exactly as the
\* requested path, download_file returns the bytes of that entry, whatever
\* the other entries and their order.
C18_Original ==
    ZipFetched =>
        \A i \in DOMAIN FsLast.body.entries :
            FsLast.body.entries[i].name = fs_file_path =>
                (fs_result.ok /\ fs_result.content = FsLast.body.entries[i].data)

\* C19 as stated: download_file of a workload-job artifact raises the
\* NotFound kind when no entry of the archive matches the requested path, and
\* an error of another kind, which a handler for NotFound does not catch, when
\* the bytes are no zip archive.
C19_Original ==
    /\ (ZipFetched /\ FsLast.body.zip /\ FirstMatch(FsLast.body.entries, Strip(fs_file_path)) = 0)
          => (~fs_result.ok /\ fs_result.cls = FileNotFoundError)
    /\ (ZipFetched /\ ~FsLast.body.zip)
          => (~fs_result.ok /\ fs_result.cls # "" /\ fs_result.cls # FileNotFoundError)

\* C20: summarize_jobs_response returns a prefix of its input: the k-th
\* returned item is the projection of the k-th input item for every k up to
\* the returned count, and truncated is true exactly when fewer items are
\* returned than were given.
C20_SummaryIsPrefix ==
    sm_pc = "done" =>
        /\ sm_out.count = Len(sm_out.jobs)
        /\ sm_out.count <= Len(sm_jobs)
        /\ \A k \in 1..sm_out.count : sm_out.jobs[k] = SummarizeJob(sm_jobs[k])
        /\ sm_out.truncated <=> (sm_out.count < Len(sm_jobs))

\* C20 witness: of three jobs the first two were returned, the third did not
\* fit the character limit, and truncated is set
C20_Witness ==
    /\ sm_pc = "done"
    /\ Len(sm_jobs) = 3
    /\ sm_max_jobs = <<>>
    /\ sm_out.count = 2
    /\ sm_out.truncated

RECURSIVE SumChars(_)
\* the sum of the serialized sizes of summarized jobs
SumChars(sjs) == IF sjs = <<>> THEN 0 ELSE SummaryChars(Head(sjs)) + SumChars(Tail(sjs))

C22_Original ==
    (pc \in {"opdone", "done"} /\ op = "get_job" /\ data.kind = "job") =>
        /\ result.ok => result.jobs[1].status \in JobStatusValues
        /\ ~JobDetailValid(data.Jobs[1]) =>
              /\ ~result.ok
              /\ result.exc.cls = ValidationException
              /\ (pc = "done" /\ caller = "rest") => http = 422

\* the last REST request came without an Authorization header or with one
\* that does not start with "Bearer "
BadHeader == authorization = <<>> \/ authorization[1] # "Bearer "

\* C23 as stated: a request whose Authorization header is missing or does not
\* start with "Bearer " is answered 401 and makes no outbound call.
C23_Original ==
    (pc = "done" /\ caller = "rest" /\ BadHeader) => (http = 401 /\ trace = <<>>)

\* C24: with OAuth2 credentials every API request follows at once the answer
\* of a token exchange made for it, and its bearer token is the access_token
\* of that answer.
C24_TokenBeforeRequest ==
    \A i \in ApiIdx :
        AuthPath(trace[i].cr[1]) = "oauth" =>
            /\ trace[i].what = "Bearer"
            /\ i >= 3
            /\ trace[i - 2].ev = "token"
            /\ trace[i - 2].cr = trace[i].cr
            /\ trace[i - 1].ev = "token_resp"
            /\ trace[i - 1].what \in Tokens
            /\ trace[i].tok = trace[i - 1].what

\* C24 witness: the retry after a 401 was sent with the token of its own
\* exchange, another one than the first attempt's
C24_Witness ==
    /\ pc = "wait"
    /\ ApiSent = 2
    /\ Cardinality(TokenIdx) = 2
    /\ \E i, j \in ApiIdx : trace[i].tok = "tok1" /\ trace[j].tok = "tok2" /\ i < j

\* positions of trace holding a failed token exchange
TokenFailedIdx ==
    {i \in DOMAIN trace : trace[i].ev = "token_resp" /\ trace[i].what \in TokenFailures}

\* C28 as stated: a failed token exchange fails the operation with
\* ISSClientError and no request at all goes to the job/platform API.
C28_Original ==
    TokenFailedIdx # {} =>
        /\ pc \in {"raised", "opdone", "done"}
        /\ exc.cls = ISSClientError
        /\ ApiSent = 0

\* C28: a failed token exchange is the last outbound call of its operation
\* (no API request and no further exchange follows it), the operation fails
\* with ISSClientError, and the only API request that can precede it is the
\* one whose 401 answer started the retry.
C28_TokenFailureEndsOperation ==
    \A i \in TokenFailedIdx :
        /\ i = Len(trace)
        /\ Cardinality(TokenFailedIdx) = 1
        /\ pc \in {"raised", "opdone", "done"}
        /\ exc.cls = ISSClientError
        /\ pc \in {"opdone", "done"} =>
               ~result.ok /\ result.exc.cls = ISSClientError
        /\ ApiSent <= 1
        /\ ApiSent = 1 => FirstIs401

\* C28 witness: the exchange failed on the first attempt and the operation
\* ended with ISSClientError without a request to the API
C28_Witness ==
    /\ TokenFailedIdx # {}
    /\ pc = "opdone"
    /\ ~result.ok
    /\ result.exc.cls = ISSClientError
    /\ ApiSent = 0

\* C26 as stated: when the connectivity test run at startup fails, startup
\* still completes.
C26_Original ==
    (caller = "lifespan" /\ pc = "done") => startup = "completed"

\* C30: while a token exchange or an API request is in flight, and until the
\* operation is over, the session is open, whatever _request found on entry
\* (none, an open one, a closed one); closing twice is closing once, and
\* close never opens a session.
C30_OutboundOnOpenSession ==
    /\ pc \in {"token", "wait", "raised", "returned", "opdone"} =>
          /\ session = "open"
          /\ ensured \in {"none", "open", "closed"}
    /\ \A i \in DOMAIN trace : trace[i].ev \in {"token", "api"} => ensured # ""
    /\ CloseSession(CloseSession(session)) = CloseSession(session)
    /\ CloseSession(session) # "open"

\* C30 witness: an API request in flight on a session that _request opened
\* after finding the former one closed
C30_Witness ==
    /\ pc = "wait"
    /\ ensured = "closed"
    /\ session = "open"
    /\ ApiSent = 1

\* the Credentials a read of the secret store would give now
StoredCredentials ==
    Credentials(DictGet(secret.username), DictGet(secret.password),
                DictGet(secret.client_id), DictGet(secret.client_secret))

\* the remote accepts the credentials the secret store holds and no others
RemoteAccepts(c) ==
    /\ secret.json
    /\ ~LacksBothPairs(secret)
    /\ AuthPath(StoredCredentials) # "none"
    /\ c = StoredCredentials

\* every API request of the trace was answered as that remote answers: 200
\* to the credentials it accepts, 401 to the others
FaithfulRemote ==
    \A i \in RespIdx :
        /\ i > 1
        /\ trace[i - 1].ev = "api"
        /\ trace[i].what = ""
        /\ trace[i].st = IF RemoteAccepts(trace[i - 1].cr[1]) THEN 200 ELSE 401

\* C29 as stated: an operation that meets a 401 for the credentials of the
\* caches, while the secret store holds, since before the operation began,
\* credentials the remote accepts, gets through: its _request does not raise.
C29_Original ==
    (/\ RequestDone
     /\ RemoteAccepts(StoredCredentials)
     /\ FirstIs401
     /\ FaithfulRemote
     /\ ~rotated
     /\ TokenFailedIdx = {}) => exc.cls = ""

\* a Credentials value built from a secret that passed the validation of
\* get_iss_credentials
PassedValidation(c) ==
    \E sec \in Secrets :
        /\ sec.json
        /\ ~LacksBothPairs(sec)
        /\ c = Credentials(DictGet(sec.username), DictGet(sec.password),
                           DictGet(sec.client_id), DictGet(sec.client_secret))

\* C25: in every order of the N calls, with the secret replaced at any
\* point, a call that returns gives a value that passed the validation, the
\* cache holds nothing or such a value, and the store was read at most once
\* per call made.
C25_ConcurrentCallsValid ==
    /\ n_reads <= n_calls
    /\ cached # <<>> => PassedValidation(cached[1])
    /\ (LastGet /\ auth_call[1].ok) => PassedValidation(auth_call[1].value)
    /\ (LastGet /\ ~auth_call[1].ok) => n_reads >= 1

\* C25 witness: all N calls are made, two of them read the store and one was
\* answered from the cache, and the last one returned
C25_Witness ==
    /\ n_calls = MaxCalls
    /\ n_reads = 2
    /\ LastGet
    /\ auth_call[1].ok
    /\ cached # <<>>

\* C27: a get_iss_credentials call that fails leaves the cache as it was,
\* and the call without force_refresh that follows a failed forced call made
\* on a filled cache returns the value cached before, without reading the
\* store.
C27_FailedCallKeepsCache ==
    /\ [](LastGet /\ ~auth_call[1].ok => cached = auth_call[1].before)
    /\ [][(/\ LastGet
            /\ ~auth_call[1].ok
            /\ auth_call[1].force_refresh
            /\ auth_call[1].before # <<>>
            /\ auth_call' # auth_call
            /\ auth_call'[1].method = "get_iss_credentials"
            /\ ~auth_call'[1].force_refresh)
           => (/\ auth_call'[1].ok
               /\ ~auth_call'[1].read
               /\ auth_call'[1].value = auth_call[1].before[1])]_vars

\* C27 witness: a forced call on a filled cache failed on a secret that is
\* not JSON and the cache still holds the former value
C27_Witness ==
    /\ LastGet
    /\ auth_call[1].force_refresh
    /\ ~auth_call[1].ok
    /\ auth_call[1].sec = SecretInvalidJson
    /\ auth_call[1].before # <<>>
    /\ cached = auth_call[1].before

====
